---- MODULE Spec2Model ----
(***************************************************************************)
(* Model of rockauto_s3.py: the lambda_handler pipeline that resets four   *)
(* CSV objects on S3, reads part numbers from the warehouse, looks up one  *)
(* price per part with a throttle, and writes the result CSVs.             *)
(*                                                                         *)
(* Strings that the program inspects character by character (the scraped   *)
(* element text, a price, the "Not Found" sentinel) are sequences of       *)
(* Unicode code points; identifiers the program only copies are strings.   *)
(* An S3 object is [header |-> row, rows |-> <<row, ...>>]; an object that *)
(* does not exist has an empty header.  Optional[str] is a record          *)
(* [some |-> BOOLEAN, val |-> chars].                                      *)
(***************************************************************************)
EXTENDS Integers, Sequences, FiniteSets, TLC

\* ---------------------------------------------------------------- bounds
\* Longest list of rows the warehouse returns.
MaxParts == 2
\* Longest text of the scraped price element that is enumerated in full.
MaxTextLen == 2

\* ------------------------------------------------------------- constants
multi_result_log_csv == "multi_result_error_log.csv"
not_found_log_csv == "not_found_error_log.csv"
output_csv_file == "part_numbers_with_prices.csv"
cleaned_csv_file == "cleaned_part_numbers_with_prices.csv"

Keys == {multi_result_log_csv, not_found_log_csv, output_csv_file, cleaned_csv_file}

ErrorHeaders == <<"VendorPartNumber", "Error">>
PriceHeaders == <<"SupplierPartNumber", "Partnumber", "Cost">>

\* The header row each key is reset to and written with.
HeadersOf(key) ==
  IF key \in {multi_result_log_csv, not_found_log_csv} THEN ErrorHeaders ELSE PriceHeaders

\* The sentinel cost of a failed lookup, "Not Found", as code points.
NotFoundCost == <<78, 111, 116, 32, 70, 111, 117, 110, 100>>

\* Optional[str]: None and a present string.
None == [some |-> FALSE, val |-> <<>>]
Some(s) == [some |-> TRUE, val |-> s]

\* ----------------------------------------------------------- input space
\* Vendor and internal part numbers the warehouse may hold.
VPNs == {"A", "B"}
PNums == {"P", "Q"}
WarehouseRow == VPNs \X PNums

\* Characters of a scraped element's text: "$", ".", "1".
Alphabet == {36, 46, 49}

\* Longer element texts: "$42.95 each", "1.1", and three with decimal digits
\* outside ASCII: "$" U+0663 "." U+0663 (Arabic-Indic three), U+FF11 U+FF12
\* (fullwidth one, two), and "1" "." U+0967 (Devanagari one).
SampleTexts ==
  {<<36, 52, 50, 46, 57, 53, 32, 101, 97, 99, 104>>,
   <<49, 46, 49>>,
   <<36, 1635, 46, 1635>>,
   <<65297, 65298>>,
   <<49, 46, 2407>>}

RECURSIVE SeqsUpTo(_, _)
SeqsUpTo(S, n) ==
  IF n = 0 THEN {<<>>}
  ELSE LET shorter == SeqsUpTo(S, n - 1)
       IN shorter \cup {Append(s, x) : s \in {t \in shorter : Len(t) = n - 1}, x \in S}

RowLists == SeqsUpTo(WarehouseRow, MaxParts)
Texts == SeqsUpTo(Alphabet, MaxTextLen) \cup SampleTexts

\* What one HTTP GET plus HTML parse can come to.
FailureKinds == {"network_error", "timeout", "http_error", "no_element"}
Responses ==
  {[kind |-> k, text |-> <<>>] : k \in FailureKinds \cup {"unhandled"}}
    \cup {[kind |-> "ok", text |-> t] : t \in Texts}

\* Contents a key may hold before the run: no object, or a prior run's data.
StaleErrorRow == <<"OLD", "No results found">>
StalePriceRow == <<"OLD", "OLDP", <<57>>>>
NoObject == [header |-> <<>>, rows |-> <<>>]
PriorObject(key) ==
  [header |-> HeadersOf(key),
   rows |-> IF HeadersOf(key) = ErrorHeaders THEN <<StaleErrorRow>> ELSE <<StalePriceRow>>]

\* ------------------------------------------------------------------ regex
\* What \d matches in a str pattern compiled without re.ASCII: every Unicode
\* decimal digit (category Nd), as ranges of code points (Unicode 14.0).
\* The first range is the ASCII digits.
NdRanges ==
  {<<48, 57>>, <<1632, 1641>>, <<1776, 1785>>, <<1984, 1993>>, <<2406, 2415>>,
   <<2534, 2543>>, <<2662, 2671>>, <<2790, 2799>>, <<2918, 2927>>,
   <<3046, 3055>>, <<3174, 3183>>, <<3302, 3311>>, <<3430, 3439>>,
   <<3558, 3567>>, <<3664, 3673>>, <<3792, 3801>>, <<3872, 3881>>,
   <<4160, 4169>>, <<4240, 4249>>, <<6112, 6121>>, <<6160, 6169>>,
   <<6470, 6479>>, <<6608, 6617>>, <<6784, 6793>>, <<6800, 6809>>,
   <<6992, 7001>>, <<7088, 7097>>, <<7232, 7241>>, <<7248, 7257>>,
   <<42528, 42537>>, <<43216, 43225>>, <<43264, 43273>>, <<43472, 43481>>,
   <<43504, 43513>>, <<43600, 43609>>, <<44016, 44025>>, <<65296, 65305>>,
   <<66720, 66729>>, <<68912, 68921>>, <<69734, 69743>>, <<69872, 69881>>,
   <<69942, 69951>>, <<70096, 70105>>, <<70384, 70393>>, <<70736, 70745>>,
   <<70864, 70873>>, <<71248, 71257>>, <<71360, 71369>>, <<71472, 71481>>,
   <<71904, 71913>>, <<72016, 72025>>, <<72784, 72793>>, <<73040, 73049>>,
   <<73120, 73129>>, <<92768, 92777>>, <<92864, 92873>>, <<93008, 93017>>,
   <<120782, 120831>>, <<123200, 123209>>, <<123632, 123641>>,
   <<125264, 125273>>, <<130032, 130041>>}

Digits == UNION {r[1]..r[2] : r \in NdRanges}
IsDigit(c) == \E r \in NdRanges : r[1] <= c /\ c <= r[2]

\* The index one past the longest run of digits that starts at p.
RECURSIVE DigitRun(_, _)
DigitRun(text, p) ==
  IF p <= Len(text) /\ IsDigit(text[p]) THEN DigitRun(text, p + 1) ELSE p

\* The match of \d+(\.\d+)? anchored at s, where text[s] is a digit: greedy
\* digits, then the optional group only if a "." (46) and a digit follow.
MatchAt(text, s) ==
  LET e == DigitRun(text, s)
      f == IF e + 1 <= Len(text) /\ text[e] = 46 /\ IsDigit(text[e + 1])
           THEN DigitRun(text, e + 1)
           ELSE e
  IN SubSeq(text, s, f - 1)

\* re.search(r"\d+(\.\d+)?", text): the leftmost match, or None.
re_search(text) ==
  LET starts == {s \in 1..Len(text) : IsDigit(text[s])}
  IN IF starts = {} THEN None
     ELSE Some(MatchAt(text, CHOOSE s \in starts : \A t \in starts : s <= t))

\* ------------------------------------------------------------------ state
VARIABLES
  pc,           \* position in lambda_handler and its callees
  s3,           \* key -> object held by the bucket
  conn,         \* warehouse connection: "none", "open", "closed"
  cur,          \* cursor: "none", "open", "closed"
  rows,         \* what cur.fetchall() returned
  parts,        \* what fetch_part_numbers returned
  i,            \* records of parts whose loop iteration has finished
  inflight,     \* HTTP requests issued and not yet answered
  resp,         \* fetch_price's local: what the request came to
  raw_results, multi_errors, not_found,
  outcome,      \* "running", "returned", "raised"
  summary,      \* lambda_handler's return value
  failed_at,    \* the position at which an exception propagated
  events        \* external calls completed so far, in order

vars == <<pc, s3, conn, cur, rows, parts, i, inflight, resp, raw_results, multi_errors,
          not_found, outcome, summary, failed_at, events>>

Event(op, key, idx) == [op |-> op, key |-> key, idx |-> idx]

NoResp == [kind |-> "none", text |-> <<>>]

NoSummary == [statusCode |-> 0, searched_count |-> 0 - 1]

\* Variant of Entry: the reset is skipped and the run starts at the read.
Entry_skips_reset == "connect"

\* lambda_handler's first statement.
Entry == "clear_multi"

Init ==
  /\ pc = Entry
  /\ s3 \in {[k \in Keys |-> IF k \in S THEN PriorObject(k) ELSE NoObject] : S \in SUBSET Keys}
  /\ conn = "none"
  /\ cur = "none"
  /\ rows = <<>>
  /\ parts = <<>>
  /\ i = 0
  /\ inflight = 0
  /\ resp = NoResp
  /\ raw_results = <<>>
  /\ multi_errors = <<>>
  /\ not_found = <<>>
  /\ outcome = "running"
  /\ summary = NoSummary
  /\ failed_at = "none"
  /\ events = <<>>

\* ---------------------------------------------------------------- storage
\* Variant of clear_csv_on_s3: the header is rewritten over the old rows.
clear_csv_on_s3_keeps_rows(store, key, headers) ==
  [store EXCEPT ![key] = [header |-> headers, rows |-> store[key].rows]]

\* clear_csv_on_s3: put an object holding the header row alone.
clear_csv_on_s3(store, key, headers) ==
  [store EXCEPT ![key] = [header |-> headers, rows |-> <<>>]]

\* csv.DictWriter.writerow: the dict's values in fieldnames order.
DictRow(d, fieldnames) == [j \in 1..Len(fieldnames) |-> d[fieldnames[j]]]

\* save_csv_to_s3: put an object holding the header row and one row per dict.
save_csv_to_s3(store, dicts, key, fieldnames) ==
  [store EXCEPT ![key] =
     [header |-> fieldnames,
      rows |-> [j \in 1..Len(dicts) |-> DictRow(dicts[j], fieldnames)]]]

\* ------------------------------------------------------------ price fetch
\* Variant of fetch_price: raise_for_status is outside the try block.
fetch_price_unguarded(got) ==
  IF got.kind \in {"network_error", "timeout"}
    THEN [raised |-> FALSE, value |-> None]
  ELSE IF got.kind \in {"unhandled", "http_error"}
    THEN [raised |-> TRUE, value |-> None]
  ELSE IF got.kind = "no_element"
    THEN [raised |-> FALSE, value |-> None]
  ELSE [raised |-> FALSE, value |-> re_search(got.text)]

\* fetch_price on one response: [raised, value].  The request errors are
\* caught and give None; a missing element gives None; otherwise the regex
\* decides.  An error outside the try block propagates.
fetch_price(got) ==
  IF got.kind \in {"network_error", "timeout", "http_error"}
    THEN [raised |-> FALSE, value |-> None]
  ELSE IF got.kind = "unhandled"
    THEN [raised |-> TRUE, value |-> None]
  ELSE IF got.kind = "no_element"
    THEN [raised |-> FALSE, value |-> None]
  ELSE [raised |-> FALSE, value |-> re_search(got.text)]

\* ------------------------------------------------------------- aggregator
\* Variant of loop_body: a record whose vendor part number was already
\* recorded is merged into the earlier result.
loop_body_dedup(raw, multi, nf, rec, price) ==
  LET vpn == rec.vendor_part_number
      pnum == rec.part_number
      cost == IF price.some THEN price.val ELSE NotFoundCost
      seen == \E j \in 1..Len(raw) : raw[j].SupplierPartNumber = vpn
  IN [raw_results |-> IF seen THEN raw
                      ELSE Append(raw, [SupplierPartNumber |-> vpn, Partnumber |-> pnum,
                                        Cost |-> cost]),
      multi_errors |-> multi,
      not_found |-> IF price.some THEN nf ELSE Append(nf, vpn)]

\* Variant of loop_body: the not-found list gets the internal part number.
loop_body_logs_pnum(raw, multi, nf, rec, price) ==
  LET vpn == rec.vendor_part_number
      pnum == rec.part_number
      cost == IF price.some THEN price.val ELSE NotFoundCost
  IN [raw_results |-> Append(raw, [SupplierPartNumber |-> vpn, Partnumber |-> pnum,
                                   Cost |-> cost]),
      multi_errors |-> multi,
      not_found |-> IF price.some THEN nf ELSE Append(nf, pnum)]

\* Variant of loop_body: a vendor part number seen before is reported as a
\* multiple result.
loop_body_flags_multi(raw, multi, nf, rec, price) ==
  LET vpn == rec.vendor_part_number
      pnum == rec.part_number
      cost == IF price.some THEN price.val ELSE NotFoundCost
      seen == \E j \in 1..Len(raw) : raw[j].SupplierPartNumber = vpn
  IN [raw_results |-> Append(raw, [SupplierPartNumber |-> vpn, Partnumber |-> pnum,
                                   Cost |-> cost]),
      multi_errors |-> IF seen THEN Append(multi, vpn) ELSE multi,
      not_found |-> IF price.some THEN nf ELSE Append(nf, vpn)]

\* The classification of one record in the loop body: the three lists after it.
loop_body(raw, multi, nf, rec, price) ==
  LET vpn == rec.vendor_part_number
      pnum == rec.part_number
  IN IF ~price.some
       THEN [raw_results |-> Append(raw, [SupplierPartNumber |-> vpn, Partnumber |-> pnum,
                                          Cost |-> NotFoundCost]),
             multi_errors |-> multi,
             not_found |-> Append(nf, vpn)]
       ELSE [raw_results |-> Append(raw, [SupplierPartNumber |-> vpn, Partnumber |-> pnum,
                                          Cost |-> price.val]),
             multi_errors |-> multi,
             not_found |-> nf]

\* Variant of throttle_after: the sleep sits in the else branch.
throttle_on_success(price) == price.some

\* time.sleep(1) follows the classification on both branches.
throttle_after(price) == TRUE

\* The dicts written to the two error logs.
ErrorDicts(vs, reason) ==
  [j \in 1..Len(vs) |-> [VendorPartNumber |-> vs[j], Error |-> reason]]

\* Variant of clean_cost: the pattern lacks the decimal group, \d+ alone.
clean_cost_int(cost) ==
  LET starts == {s \in 1..Len(cost) : IsDigit(cost[s])}
      first == CHOOSE s \in starts : \A t \in starts : s <= t
  IN IF starts = {} THEN None
     ELSE Some(SubSeq(cost, first, DigitRun(cost, first) - 1))

\* The extraction the cleaning loop applies to a row's cost.
clean_cost(cost) == re_search(cost)

\* The cleaning loop: the rows whose cost holds a number, with the number as cost.
RECURSIVE cleaned_rows(_)
cleaned_rows(raw) ==
  IF raw = <<>> THEN <<>>
  ELSE LET row == Head(raw)
           m == clean_cost(row.Cost)
       IN IF m.some
            THEN <<[SupplierPartNumber |-> row.SupplierPartNumber,
                    Partnumber |-> row.Partnumber,
                    Cost |-> m.val]>> \o cleaned_rows(Tail(raw))
            ELSE cleaned_rows(Tail(raw))

\* Variant of Summary: only the priced records are counted.
Summary_found_only(ps) ==
  [statusCode |-> 200, searched_count |-> Len(cleaned_rows(raw_results))]

\* lambda_handler's return value.
Summary(ps) == [statusCode |-> 200, searched_count |-> Len(ps)]

\* ---------------------------------------------------------------- actions
Raise ==
  /\ pc' = "failed"
  /\ failed_at' = pc
  /\ outcome' = "raised"

\* One call of clear_csv_on_s3 from clear_all_csvs.
Clear(at, key, next) ==
  /\ pc = at
  /\ s3' = clear_csv_on_s3(s3, key, HeadersOf(key))
  /\ events' = Append(events, Event("clear", key, 0))
  /\ pc' = next
  /\ UNCHANGED <<conn, cur, rows, parts, i, inflight, resp, raw_results, multi_errors,
                 not_found, outcome, summary, failed_at>>

ClearMulti == Clear("clear_multi", multi_result_log_csv, "clear_nf")
ClearNotFound == Clear("clear_nf", not_found_log_csv, "clear_out")
ClearOutput == Clear("clear_out", output_csv_file, "clear_cleaned")
ClearCleaned == Clear("clear_cleaned", cleaned_csv_file, "connect")

\* fetch_part_numbers, statement by statement.
Connect ==
  /\ pc = "connect"
  /\ conn' = "open"
  /\ events' = Append(events, Event("connect", "", 0))
  /\ pc' = "cursor"
  /\ UNCHANGED <<s3, cur, rows, parts, i, inflight, resp, raw_results, multi_errors,
                 not_found, outcome, summary, failed_at>>

Cursor ==
  /\ pc = "cursor"
  /\ cur' = "open"
  /\ events' = Append(events, Event("cursor", "", 0))
  /\ pc' = "execute"
  /\ UNCHANGED <<s3, conn, rows, parts, i, inflight, resp, raw_results, multi_errors,
                 not_found, outcome, summary, failed_at>>

Execute ==
  /\ pc = "execute"
  /\ events' = Append(events, Event("execute", "", 0))
  /\ pc' = "fetchall"
  /\ UNCHANGED <<s3, conn, cur, rows, parts, i, inflight, resp, raw_results, multi_errors,
                 not_found, outcome, summary, failed_at>>

Fetchall ==
  /\ pc = "fetchall"
  /\ \E rs \in RowLists : rows' = rs
  /\ events' = Append(events, Event("fetchall", "", 0))
  /\ pc' = "cur_close"
  /\ UNCHANGED <<s3, conn, cur, parts, i, inflight, resp, raw_results, multi_errors,
                 not_found, outcome, summary, failed_at>>

CurClose ==
  /\ pc = "cur_close"
  /\ cur' = "closed"
  /\ events' = Append(events, Event("cur_close", "", 0))
  /\ pc' = "conn_close"
  /\ UNCHANGED <<s3, conn, rows, parts, i, inflight, resp, raw_results, multi_errors,
                 not_found, outcome, summary, failed_at>>

\* conn.close(), then the list comprehension that is returned.
ConnClose ==
  /\ pc = "conn_close"
  /\ conn' = "closed"
  /\ parts' = [j \in 1..Len(rows) |->
                 [vendor_part_number |-> rows[j][1], part_number |-> rows[j][2]]]
  /\ events' = Append(events, Event("conn_close", "", 0))
  /\ pc' = "loop"
  /\ UNCHANGED <<s3, cur, rows, i, inflight, resp, raw_results, multi_errors,
                 not_found, outcome, summary, failed_at>>

\* A warehouse call raises: nothing in fetch_part_numbers or lambda_handler
\* catches it, and no later statement of fetch_part_numbers runs.
WarehouseRaises ==
  /\ pc \in {"connect", "cursor", "execute", "fetchall", "cur_close", "conn_close"}
  /\ Raise
  /\ UNCHANGED <<s3, conn, cur, rows, parts, i, inflight, resp, raw_results, multi_errors,
                 not_found, summary, events>>

\* The for loop takes the next record and fetch_price issues its request.
LoopNext ==
  /\ pc = "loop"
  /\ i < Len(parts)
  /\ inflight' = inflight + 1
  /\ events' = Append(events, Event("get", parts[i + 1].vendor_part_number, i + 1))
  /\ pc' = "http"
  /\ UNCHANGED <<s3, conn, cur, rows, parts, i, resp, raw_results, multi_errors,
                 not_found, outcome, summary, failed_at>>

\* requests.get and raise_for_status end: with an exception or a response.
HttpResponse ==
  /\ pc = "http"
  /\ \E r \in Responses : resp' = r
  /\ inflight' = inflight - 1
  /\ pc' = "parse"
  /\ UNCHANGED <<s3, conn, cur, rows, parts, i, raw_results, multi_errors,
                 not_found, outcome, summary, failed_at, events>>

\* fetch_price returns or raises, and the loop body classifies the record.
FetchPriceReturn ==
  /\ pc = "parse"
  /\ LET r == fetch_price(resp)
         b == loop_body(raw_results, multi_errors, not_found, parts[i + 1], r.value)
     IN IF r.raised
          THEN /\ Raise
               /\ UNCHANGED <<raw_results, multi_errors, not_found, i, resp>>
          ELSE /\ raw_results' = b.raw_results
               /\ multi_errors' = b.multi_errors
               /\ not_found' = b.not_found
               /\ pc' = IF throttle_after(r.value) THEN "sleep" ELSE "loop"
               /\ i' = IF throttle_after(r.value) THEN i ELSE i + 1
               /\ resp' = NoResp
               /\ UNCHANGED <<outcome, failed_at>>
  /\ UNCHANGED <<s3, conn, cur, rows, parts, inflight, summary, events>>

\* time.sleep(1), which ends the iteration.
Sleep ==
  /\ pc = "sleep"
  /\ events' = Append(events, Event("sleep", "", i + 1))
  /\ i' = i + 1
  /\ pc' = "loop"
  /\ UNCHANGED <<s3, conn, cur, rows, parts, inflight, resp, raw_results, multi_errors,
                 not_found, outcome, summary, failed_at>>

LoopExit ==
  /\ pc = "loop"
  /\ i >= Len(parts)
  /\ pc' = "write_multi"
  /\ UNCHANGED <<s3, conn, cur, rows, parts, i, inflight, resp, raw_results, multi_errors,
                 not_found, outcome, summary, failed_at, events>>

\* A guarded write of an error log: skipped when the list is empty.
WriteLog(at, vs, reason, key, next) ==
  /\ pc = at
  /\ s3' = IF vs # <<>>
             THEN save_csv_to_s3(s3, ErrorDicts(vs, reason), key, ErrorHeaders)
             ELSE s3
  /\ events' = IF vs # <<>> THEN Append(events, Event("save", key, 0)) ELSE events
  /\ pc' = next
  /\ UNCHANGED <<conn, cur, rows, parts, i, inflight, resp, raw_results, multi_errors,
                 not_found, outcome, summary, failed_at>>

WriteMulti ==
  WriteLog("write_multi", multi_errors, "Multiple results found", multi_result_log_csv,
           "write_nf")

WriteNotFound ==
  WriteLog("write_nf", not_found, "No results found", not_found_log_csv, "write_raw")

WriteRaw ==
  /\ pc = "write_raw"
  /\ s3' = save_csv_to_s3(s3, raw_results, output_csv_file, PriceHeaders)
  /\ events' = Append(events, Event("save", output_csv_file, 0))
  /\ pc' = "write_cleaned"
  /\ UNCHANGED <<conn, cur, rows, parts, i, inflight, resp, raw_results, multi_errors,
                 not_found, outcome, summary, failed_at>>

WriteCleaned ==
  /\ pc = "write_cleaned"
  /\ s3' = save_csv_to_s3(s3, cleaned_rows(raw_results), cleaned_csv_file, PriceHeaders)
  /\ events' = Append(events, Event("save", cleaned_csv_file, 0))
  /\ pc' = "return"
  /\ UNCHANGED <<conn, cur, rows, parts, i, inflight, resp, raw_results, multi_errors,
                 not_found, outcome, summary, failed_at>>

\* s3.put_object raises in a reset or in a write that is attempted.
PutObjectRaises ==
  /\ \/ pc \in {"clear_multi", "clear_nf", "clear_out", "clear_cleaned",
                "write_raw", "write_cleaned"}
     \/ pc = "write_multi" /\ multi_errors # <<>>
     \/ pc = "write_nf" /\ not_found # <<>>
  /\ Raise
  /\ UNCHANGED <<s3, conn, cur, rows, parts, i, inflight, resp, raw_results, multi_errors,
                 not_found, summary, events>>

Return ==
  /\ pc = "return"
  /\ summary' = Summary(parts)
  /\ outcome' = "returned"
  /\ events' = Append(events, Event("return", "", 0))
  /\ pc' = "done"
  /\ UNCHANGED <<s3, conn, cur, rows, parts, i, inflight, resp, raw_results, multi_errors,
                 not_found, failed_at>>

Next ==
  \/ ClearMulti \/ ClearNotFound \/ ClearOutput \/ ClearCleaned
  \/ Connect \/ Cursor \/ Execute \/ Fetchall \/ CurClose \/ ConnClose
  \/ WarehouseRaises
  \/ LoopNext \/ HttpResponse \/ FetchPriceReturn \/ Sleep \/ LoopExit
  \/ WriteMulti \/ WriteNotFound \/ WriteRaw \/ WriteCleaned
  \/ PutObjectRaises
  \/ Return

Spec == Init /\ [][Next]_vars

\* ------------------------------------------------------ claim vocabulary
Done(op, key) == \E j \in 1..Len(events) : events[j].op = op /\ events[j].key = key
Count(op) == Cardinality({j \in 1..Len(events) : events[j].op = op})
HeaderOnly(key) == s3[key] = [header |-> HeadersOf(key), rows |-> <<>>]
ResetCompleted == \A k \in Keys : Done("clear", k)
WritePcs == {"write_multi", "write_nf", "write_raw", "write_cleaned"}
AfterLoop == pc \in WritePcs \cup {"return", "done"} \/ failed_at \in WritePcs
IsNotFound(r) == r.Cost = NotFoundCost
PriceResultOf(rec, cost) ==
  [SupplierPartNumber |-> rec.vendor_part_number, Partnumber |-> rec.part_number,
   Cost |-> cost]

\* ---------------------------------------------------------------- claims

\* C1: once part_numbers_with_prices.csv has been written, it holds exactly
\* one row per record the warehouse returned, in input order, row j carrying
\* record j's vendor part number and internal part number; and during the run
\* raw_results is always such a list for a prefix of the input.
C1_OneResultPerRecord ==
  /\ Len(raw_results) <= Len(parts)
  /\ \A j \in 1..Len(raw_results) :
       /\ raw_results[j].SupplierPartNumber = parts[j].vendor_part_number
       /\ raw_results[j].Partnumber = parts[j].part_number
  /\ Done("save", output_csv_file) =>
       /\ s3[output_csv_file].header = PriceHeaders
       /\ Len(s3[output_csv_file].rows) = Len(rows)
       /\ \A j \in 1..Len(rows) :
            /\ s3[output_csv_file].rows[j][1] = rows[j][1]
            /\ s3[output_csv_file].rows[j][2] = rows[j][2]
            /\ s3[output_csv_file].rows[j][3] = raw_results[j].Cost

\* C1 witness: the raw file is written for an input that holds the same
\* record twice, one lookup failed and one priced.
C1_Witness ==
  /\ Done("save", output_csv_file)
  /\ Len(rows) = 2
  /\ rows[1] = rows[2]
  /\ IsNotFound(raw_results[1])
  /\ ~IsNotFound(raw_results[2])

\* The "No results found" entries the not-found log is built from.
NotFoundEntries == ErrorDicts(not_found, "No results found")

\* C2 as stated: after the loop, a PriceResult has cost "Not Found" if and
\* only if some "No results found" entry names its vendor part number.
C2_AsStated ==
  AfterLoop =>
    \A j \in 1..Len(raw_results) :
      IsNotFound(raw_results[j]) <=>
        \E e \in 1..Len(NotFoundEntries) :
          /\ NotFoundEntries[e].VendorPartNumber = raw_results[j].SupplierPartNumber
          /\ NotFoundEntries[e].Error = "No results found"

\* The vendor part numbers of the results whose cost is "Not Found", in order.
RECURSIVE NotFoundVpns(_)
NotFoundVpns(raw) ==
  IF raw = <<>> THEN <<>>
  ELSE (IF IsNotFound(Head(raw)) THEN <<Head(raw).SupplierPartNumber>> ELSE <<>>)
         \o NotFoundVpns(Tail(raw))

\* C2 amended: after the loop the "No results found" entries are, one for
\* one and in order, the PriceResults whose cost is "Not Found"; so a result
\* with cost "Not Found" has an entry for its vendor part number, and a
\* vendor part number has an entry only if one of its results is "Not Found".
\* The not-found log, once written, holds exactly these entries.
C2_EntriesMatchNotFoundResults ==
  /\ AfterLoop =>
       /\ Len(NotFoundEntries) = Len(NotFoundVpns(raw_results))
       /\ \A e \in 1..Len(NotFoundEntries) :
            /\ NotFoundEntries[e].VendorPartNumber = NotFoundVpns(raw_results)[e]
            /\ NotFoundEntries[e].Error = "No results found"
  /\ Done("save", not_found_log_csv) =>
       s3[not_found_log_csv].rows =
         [e \in 1..Len(NotFoundVpns(raw_results)) |->
            <<NotFoundVpns(raw_results)[e], "No results found">>]

\* C2 witness: the loop has ended on an input where one vendor part number
\* occurs twice, found once and not found once.
C2_Witness ==
  /\ pc = "done"
  /\ Len(raw_results) = 2
  /\ raw_results[1].SupplierPartNumber = raw_results[2].SupplierPartNumber
  /\ ~IsNotFound(raw_results[1])
  /\ IsNotFound(raw_results[2])
  /\ Len(s3[not_found_log_csv].rows) = 1

\* C3: once the cleaned file has been written, its rows are the rows of the
\* raw file whose cost is not "Not Found", in the same order and with the
\* same cost; extracting again from a price returns that price.
C3_CleanedIsFilteredRaw ==
  Done("save", cleaned_csv_file) =>
    /\ s3[cleaned_csv_file].header = PriceHeaders
    /\ s3[cleaned_csv_file].rows =
         SelectSeq(s3[output_csv_file].rows, LAMBDA r : r[3] # NotFoundCost)
    /\ \A j \in 1..Len(raw_results) :
         ~IsNotFound(raw_results[j]) =>
           re_search(raw_results[j].Cost) = Some(raw_results[j].Cost)

\* C3 witness: the cleaned file is written from a raw list that holds a
\* "Not Found" row followed by a price with a decimal point.
C3_Witness ==
  /\ Done("save", cleaned_csv_file)
  /\ Len(raw_results) = 2
  /\ IsNotFound(raw_results[1])
  /\ raw_results[2].Cost = <<49, 46, 49>>
  /\ Len(s3[cleaned_csv_file].rows) = 1

\* C4: if the reset completed and the run raised before the write phase,
\* every one of the four objects holds its header row and no data row.
C4_AbortLeavesHeaderOnly ==
  (outcome = "raised" /\ ResetCompleted /\ failed_at \notin WritePcs) =>
    \A k \in Keys : HeaderOnly(k)

\* C4 witness: the run raised in the fetch loop after one record had been
\* classified.
C4_Witness ==
  /\ outcome = "raised"
  /\ ResetCompleted
  /\ failed_at = "parse"
  /\ Len(raw_results) = 1

\* C5 as stated: outside fetch_part_numbers, a connection that was opened
\* is closed.
C5_ConnectionClosedOnExit ==
  (pc \notin {"cursor", "execute", "fetchall", "cur_close", "conn_close"}
     /\ conn # "none") => conn = "closed"

\* A lookup failure: a request error, a missing element, or a text that
\* holds no digit.
LookupFailed(got) ==
  \/ got.kind \in FailureKinds
  \/ got.kind = "ok" /\ \A j \in 1..Len(got.text) : got.text[j] \notin Digits

\* C6: a lookup failure never aborts the run.  The step that follows a
\* failed lookup records the record with cost "Not Found" and goes on to the
\* throttle; the loop raises only on an error that is not a lookup failure;
\* and after the loop every record has been looked up and recorded.
C6_LookupFailureRecovered ==
  /\ [][(pc = "parse" /\ LookupFailed(resp)) =>
          /\ pc' = "sleep"
          /\ outcome' = "running"
          /\ raw_results' =
               Append(raw_results, PriceResultOf(parts[i + 1], NotFoundCost))]_vars
  /\ [](failed_at = "parse" => ~LookupFailed(resp))
  /\ [](AfterLoop => /\ Len(raw_results) = Len(parts)
                    /\ Count("get") = Len(parts))

\* C6 witness: the run is done, the first lookup failed and the second
\* record was still looked up and priced.
C6_Witness ==
  /\ pc = "done"
  /\ Len(raw_results) = 2
  /\ IsNotFound(raw_results[1])
  /\ ~IsNotFound(raw_results[2])
  /\ Count("get") = 2

\* Every step of the run completed: the four resets, the warehouse read, one
\* lookup and one throttle per row, and every write that was due.
AllCompleted ==
  /\ ResetCompleted
  /\ Done("conn_close", "")
  /\ Count("get") = Len(rows)
  /\ Count("sleep") = Len(rows)
  /\ Len(raw_results) = Len(rows)
  /\ (multi_errors # <<>> => Done("save", multi_result_log_csv))
  /\ (not_found # <<>> => Done("save", not_found_log_csv))
  /\ Done("save", output_csv_file)
  /\ Done("save", cleaned_csv_file)

\* C7: lambda_handler has returned exactly when every step completed, and
\* then the summary is statusCode 200 with searched_count the number of rows
\* the warehouse returned; a run that raised, or is still running, has no
\* summary.
C7_SummaryIffAllCompleted ==
  /\ outcome = "returned" =>
       /\ AllCompleted
       /\ summary = [statusCode |-> 200, searched_count |-> Len(rows)]
  /\ outcome # "returned" => summary = NoSummary
  /\ outcome = "raised" => pc = "failed" /\ ~Done("return", "")
  /\ (AllCompleted /\ pc \notin {"return"}) => outcome = "returned"

\* C7 witness: a summary counting two records was returned although one of
\* the two lookups failed.
C7_Witness ==
  /\ outcome = "returned"
  /\ summary.searched_count = 2
  /\ IsNotFound(raw_results[1])
  /\ ~IsNotFound(raw_results[2])

\* C8: multi_errors is empty in every state, the multiple-result log is
\* never written, and once it has been reset it holds its header row alone.
C8_MultiErrorsAlwaysEmpty ==
  /\ multi_errors = <<>>
  /\ ~Done("save", multi_result_log_csv)
  /\ Done("clear", multi_result_log_csv) => HeaderOnly(multi_result_log_csv)

\* C8 witness: a run with a failed lookup is done and the multiple-result
\* log holds its header alone.
C8_Witness ==
  /\ pc = "done"
  /\ not_found # <<>>
  /\ Len(raw_results) = 2
  /\ HeaderOnly(multi_result_log_csv)

\* The phase an external call belongs to.
PhaseOf(op) ==
  CASE op = "clear" -> 1
    [] op \in {"connect", "cursor", "execute", "fetchall", "cur_close", "conn_close"} -> 2
    [] op \in {"get", "sleep"} -> 3
    [] op = "save" -> 4
    [] op = "return" -> 5

\* C9: the calls of a run are in phase order Reset, Read, Fetch-all, Write,
\* Done, no phase being entered again after a later one; each key is reset
\* and written at most once and the warehouse is read at most once; the
\* warehouse is not touched before all four keys are reset; no lookup is made
\* before the read has returned; and no data row is written, nor present
\* after the reset, before the last record's lookup and throttle are over.
C9_PhasesInOrder ==
  LET gets == Count("get")
      saves == Count("save")
      KeysOf(op) == {events[j].key : j \in {n \in 1..Len(events) : events[n].op = op}}
  IN /\ \A a \in 1..(Len(events) - 1) :
          PhaseOf(events[a].op) <= PhaseOf(events[a + 1].op)
     /\ Cardinality(KeysOf("clear")) = Count("clear")
     /\ Cardinality(KeysOf("save")) = saves
     /\ \A op \in {"connect", "fetchall", "return"} : Count(op) <= 1
     /\ Count("connect") > 0 => ResetCompleted
     /\ gets > 0 => Done("fetchall", "") /\ Done("conn_close", "")
     /\ saves > 0 => gets = Len(parts) /\ Count("sleep") = Len(parts)
     /\ (ResetCompleted /\ saves = 0) => \A k \in Keys : HeaderOnly(k)
     /\ Count("return") > 0 => Done("save", cleaned_csv_file)

\* C9 witness: a run of two records has gone through all five phases.
C9_Witness ==
  /\ pc = "done"
  /\ Len(parts) = 2
  /\ Count("clear") = 4
  /\ Count("save") = 3
  /\ Count("return") = 1

\* The lookups and throttles among the calls, in order.
LoopEvents == SelectSeq(events, LAMBDA e : e.op \in {"get", "sleep"})

\* C10: the lookups and throttles alternate, lookup j being of record j's
\* vendor part number and followed by throttle j, whatever the lookup came
\* to; at most one request is in flight; after the loop there has been
\* exactly one lookup and one throttle per record.
C10_OneLookupOneDelayPerRecord ==
  LET loop == LoopEvents
  IN /\ inflight \in {0, 1}
     /\ Len(loop) <= 2 * Len(parts)
     /\ \A j \in 1..Len(loop) :
          /\ loop[j].idx = (j + 1) \div 2
          /\ loop[j].op = IF j % 2 = 1 THEN "get" ELSE "sleep"
          /\ j % 2 = 1 => loop[j].key = parts[(j + 1) \div 2].vendor_part_number
     /\ pc = "loop" => Len(loop) = 2 * i
     /\ AfterLoop => Len(loop) = 2 * Len(parts)

\* C10 witness: the second lookup has been issued after a first lookup that
\* failed and its throttle.
C10_Witness ==
  /\ pc = "http"
  /\ inflight = 1
  /\ Len(LoopEvents) = 3
  /\ IsNotFound(raw_results[1])

====
